---------------------------- MODULE Spec2Model ----------------------------
(***************************************************************************)
(* A model of demo.py of the ferrum repository: the benchmark harness      *)
(* benchmark_function and the four pure-Python reference algorithms it     *)
(* times (python_sum_large_vector, python_fibonacci, python_find_primes,   *)
(* python_analyze_text).                                                   *)
(*                                                                         *)
(* The functions share no state, so each has its own group of variables    *)
(* and its own specification (Spec, SpecFib, SpecPrimes, SpecSum,          *)
(* SpecText); a specification leaves the other groups at their idle value. *)
(***************************************************************************)
EXTENDS Integers, Sequences, FiniteSets

VARIABLES
    \* ---- benchmark_function (demo.py 9-20) ----
    bPc,          \* the line about to run: "start","loop","end","avg","print","return","done"
    iterations,   \* the keyword argument iterations
    failAt,       \* the callable func: the invocation on which it raises (0: never)
    opExc,        \* the callable func: the exception it raises when it does
    now,          \* the value time.perf_counter() would return now
    start,        \* local start
    endT,         \* local end
    loopI,        \* how many values range(iterations) has yielded
    result,       \* local result ("unbound" until the first assignment)
    avg_time,     \* local avg_time: the quotient as a fraction [num, den]
    printed,      \* the summary lines written to stdout
    bOutcome,     \* "running", "returned" or "raised"
    bReturn,      \* the returned pair <<result, avg_time>>
    bExc,         \* the exception that left benchmark_function
    calls,        \* history: number of invocations of func so far
    returns,      \* history: the value each completed invocation returned
    reads,        \* history: each clock read [t, calls, printed] at its moment
    \* ---- python_fibonacci (demo.py 28-32) ----
    fPc,          \* "call", "run" or "done"
    fN,           \* the argument of the outermost call
    fStack,       \* the active invocations, outermost first
    fResult,      \* the value of the outermost call
    fOutcome,     \* "running", "returned" or "raised"
    fCalls,       \* history: number of invocations so far
    fMaxDepth,    \* history: the largest number of simultaneously active invocations
    fReturned,    \* history: the set of <<argument, value>> of completed invocations
    \* ---- python_find_primes (demo.py 35-48) ----
    pPc,          \* "check", "alloc", "outer", "inner", "collect" or "done"
    limit,        \* the argument
    sieve,        \* the list sieve, as a function on 0..limit
    pI,           \* loop variable i
    pJ,           \* loop variable j
    pResult,      \* the returned list
    pOutcome,     \* "running", "returned" or "raised"
    \* ---- python_sum_large_vector (demo.py 23-25) ----
    sPc,          \* "call", "iter" or "done"
    numbers,      \* the argument: [kind, items, n]
    sIdx,         \* the next index sum() reads
    sAcc,         \* the accumulator of sum(), an unbounded integer
    sResult,      \* the returned integer
    \* ---- python_analyze_text (demo.py 51-56) ----
    tPc,          \* "call" or "done"
    text,         \* the argument, a sequence of characters
    tResult       \* the returned triple

benchVars == <<bPc, iterations, failAt, opExc, now, start, endT, loopI, result,
               avg_time, printed, bOutcome, bReturn, bExc, calls, returns, reads>>
fibVars == <<fPc, fN, fStack, fResult, fOutcome, fCalls, fMaxDepth, fReturned>>
primeVars == <<pPc, limit, sieve, pI, pJ, pResult, pOutcome>>
sumVars == <<sPc, numbers, sIdx, sAcc, sResult>>
textVars == <<tPc, text, tResult>>
vars == <<benchVars, fibVars, primeVars, sumVars, textVars>>
notBench == <<fibVars, primeVars, sumVars, textVars>>
notFib == <<benchVars, primeVars, sumVars, textVars>>
notPrimes == <<benchVars, fibVars, sumVars, textVars>>
notSum == <<benchVars, fibVars, primeVars, textVars>>
notText == <<benchVars, fibVars, primeVars, sumVars>>

(***************************************************************************)
(* Bounds of the model.                                                    *)
(***************************************************************************)
MaxIter == 3
MaxNegIter == 2
MaxClock == 3
MaxN == 10
MaxNegArg == 2
MaxLimit == 30
MaxSeqLen == 4
MaxAbsVal == 2
MaxTextLen == 6

Max(a, b) == IF a >= b THEN a ELSE b

(***************************************************************************)
(* benchmark_function                                                      *)
(***************************************************************************)
Values == {"r1", "r2"}
OpErrors == {"ValueError", "RuntimeError"}
NoFrac == [num |-> 0, den |-> 1]

\* The state before benchmark_function runs its first line; with active
\* FALSE the function is not under check and its variables stay idle.
BenchStart(active) ==
    /\ bPc = IF active THEN "start" ELSE "idle"
    /\ iterations \in IF active THEN (0 - MaxNegIter)..MaxIter ELSE {0}
    /\ failAt \in IF active THEN 0..MaxIter ELSE {0}
    /\ opExc \in IF active THEN OpErrors ELSE {"none"}
    /\ now = 0 /\ start = 0 /\ endT = 0 /\ loopI = 0 /\ result = "unbound"
    /\ avg_time = NoFrac /\ printed = <<>>
    /\ bOutcome = IF active THEN "running" ELSE "idle"
    /\ bReturn = <<>> /\ bExc = "none" /\ calls = 0 /\ returns = <<>>
    /\ reads = <<>>

\* time.perf_counter(): the clock's value, and the history of the read.
ClockRead == [t |-> now, calls |-> calls, printed |-> Len(printed)]

\* Mutant of AvgTime: the total is returned, not divided.
AvgTimeTotal(s, e, k) == [num |-> e - s, den |-> 1]

\* (end - start) / iterations, kept exact as a fraction.
AvgTime(s, e, k) == [num |-> e - s, den |-> k]

\* Mutant of RangeHasNext: range(iterations + 1).
RangeHasNextOneMore(i, k) == i <= k

\* range(iterations) yields another value.
RangeHasNext(i, k) == i < k

\* Time passes while benchmark_function runs; the clock is monotonic.
Tick ==
    /\ UNCHANGED notBench
    /\ bOutcome = "running"
    /\ now < MaxClock
    /\ now' = now + 1
    /\ UNCHANGED <<bPc, iterations, failAt, opExc, start, endT, loopI, result,
                   avg_time, printed, bOutcome, bReturn, bExc, calls, returns, reads>>

\* line 11: start = time.perf_counter()
ReadStart ==
    /\ UNCHANGED notBench
    /\ bPc = "start"
    /\ start' = now
    /\ reads' = Append(reads, ClockRead)
    /\ bPc' = "loop"
    /\ UNCHANGED <<iterations, failAt, opExc, now, endT, loopI, result, avg_time,
                   printed, bOutcome, bReturn, bExc, calls, returns>>

\* lines 13-14: one pass of the loop in which func(*args) returns a value.
InvokeReturns ==
    /\ UNCHANGED notBench
    /\ bPc = "loop"
    /\ RangeHasNext(loopI, iterations)
    /\ calls + 1 # failAt
    /\ \E v \in Values :
          /\ result' = v
          /\ returns' = Append(returns, v)
    /\ calls' = calls + 1
    /\ loopI' = loopI + 1
    /\ UNCHANGED <<bPc, iterations, failAt, opExc, now, start, endT, avg_time,
                   printed, bOutcome, bReturn, bExc, reads>>

\* Mutant of InvokeRaises: the failure is caught and the loop goes on.
InvokeRaisesCaught ==
    /\ UNCHANGED notBench
    /\ bPc = "loop"
    /\ RangeHasNext(loopI, iterations)
    /\ calls + 1 = failAt
    /\ calls' = calls + 1
    /\ loopI' = loopI + 1
    /\ result' = "r1"
    /\ UNCHANGED <<bPc, iterations, failAt, opExc, now, start, endT, avg_time,
                   printed, bOutcome, bReturn, bExc, returns, reads>>

\* lines 13-14: one pass of the loop in which func(*args) raises; nothing in
\* benchmark_function catches it.
InvokeRaises ==
    /\ UNCHANGED notBench
    /\ bPc = "loop"
    /\ RangeHasNext(loopI, iterations)
    /\ calls + 1 = failAt
    /\ calls' = calls + 1
    /\ loopI' = loopI + 1
    /\ bExc' = opExc
    /\ bOutcome' = "raised"
    /\ bPc' = "done"
    /\ UNCHANGED <<iterations, failAt, opExc, now, start, endT, result, avg_time,
                   printed, bReturn, returns, reads>>

\* line 13: range(iterations) is exhausted.
LoopExit ==
    /\ UNCHANGED notBench
    /\ bPc = "loop"
    /\ ~RangeHasNext(loopI, iterations)
    /\ bPc' = "end"
    /\ UNCHANGED <<iterations, failAt, opExc, now, start, endT, loopI, result,
                   avg_time, printed, bOutcome, bReturn, bExc, calls, returns, reads>>

\* line 16: end = time.perf_counter()
ReadEnd ==
    /\ UNCHANGED notBench
    /\ bPc = "end"
    /\ endT' = now
    /\ reads' = Append(reads, ClockRead)
    /\ bPc' = "avg"
    /\ UNCHANGED <<iterations, failAt, opExc, now, start, loopI, result, avg_time,
                   printed, bOutcome, bReturn, bExc, calls, returns>>

\* line 17: avg_time = (end - start) / iterations; a float divided by the
\* integer 0 raises ZeroDivisionError.
ComputeAvg ==
    /\ UNCHANGED notBench
    /\ bPc = "avg"
    /\ IF iterations = 0
          THEN /\ bExc' = "ZeroDivisionError"
               /\ bOutcome' = "raised"
               /\ bPc' = "done"
               /\ UNCHANGED avg_time
          ELSE /\ avg_time' = AvgTime(start, endT, iterations)
               /\ bPc' = "print"
               /\ UNCHANGED <<bExc, bOutcome>>
    /\ UNCHANGED <<iterations, failAt, opExc, now, start, endT, loopI, result,
                   printed, bReturn, calls, returns, reads>>

\* line 19: print(f"  {name}: {avg_time:.6f}s per call ({iterations} iterations)")
PrintSummary ==
    /\ UNCHANGED notBench
    /\ bPc = "print"
    /\ printed' = Append(printed, [avg |-> avg_time, iterations |-> iterations])
    /\ bPc' = "return"
    /\ UNCHANGED <<iterations, failAt, opExc, now, start, endT, loopI, result,
                   avg_time, bOutcome, bReturn, bExc, calls, returns, reads>>

\* Mutant of ReturnPair: result starts as a value, so the pair is returned.
ReturnPairAlways ==
    /\ UNCHANGED notBench
    /\ bPc = "return"
    /\ bReturn' = <<result, avg_time>>
    /\ bOutcome' = "returned"
    /\ bPc' = "done"
    /\ UNCHANGED <<iterations, failAt, opExc, now, start, endT, loopI, result,
                   avg_time, printed, bExc, calls, returns, reads>>

\* line 20: return result, avg_time; reading the local result before any
\* assignment raises UnboundLocalError.
ReturnPair ==
    /\ UNCHANGED notBench
    /\ bPc = "return"
    /\ IF result = "unbound"
          THEN /\ bExc' = "UnboundLocalError"
               /\ bOutcome' = "raised"
               /\ UNCHANGED bReturn
          ELSE /\ bReturn' = <<result, avg_time>>
               /\ bOutcome' = "returned"
               /\ UNCHANGED bExc
    /\ bPc' = "done"
    /\ UNCHANGED <<iterations, failAt, opExc, now, start, endT, loopI, result,
                   avg_time, printed, calls, returns, reads>>

BenchStep ==
    \/ Tick
    \/ ReadStart
    \/ InvokeReturns
    \/ InvokeRaises
    \/ LoopExit
    \/ ReadEnd
    \/ ComputeAvg
    \/ PrintSummary
    \/ ReturnPair

(***************************************************************************)
(* python_fibonacci, run as the interpreter runs it: a stack of active     *)
(* invocations.  A frame is [n, stage, left, right]; stage is "enter"      *)
(* (line 30 not yet run), "waitL" / "waitR" (the left / right operand of   *)
(* line 32 is being evaluated), "gotL" (the left operand is known, the     *)
(* right one not yet called) and "gotR" (both known, the sum not yet       *)
(* returned).  Python evaluates the operands of + left to right.           *)
(***************************************************************************)
Frame(n) == [n |-> n, stage |-> "enter", left |-> 0, right |-> 0]

FibStart(active) ==
    /\ fPc = IF active THEN "call" ELSE "idle"
    /\ fN \in IF active THEN (0 - MaxNegArg)..MaxN ELSE {0}
    /\ fStack = <<>> /\ fResult = 0
    /\ fOutcome = IF active THEN "running" ELSE "idle"
    /\ fCalls = 0 /\ fMaxDepth = 0 /\ fReturned = {}

\* line 30: if n <= 1
FibBase(n) == n <= 1

\* Mutant of FibRightArg: the second operand repeats the first.
FibRightArgSame(n) == n - 1

\* line 32: the arguments of the two recursive calls
FibLeftArg(n) == n - 1
FibRightArg(n) == n - 2

Top(stack) == stack[Len(stack)]
Pop(stack) == SubSeq(stack, 1, Len(stack) - 1)

\* The stack after the top invocation returned v to its caller.
Deliver(stack, v) ==
    LET rest == Pop(stack) IN
    IF rest = <<>> THEN rest
    ELSE LET c == Top(rest) IN
         [rest EXCEPT ![Len(rest)] =
             IF c.stage = "waitL"
                THEN [c EXCEPT !.stage = "gotL", !.left = v]
                ELSE [c EXCEPT !.stage = "gotR", !.right = v]]

\* A new invocation starts: the frame is pushed.
FibPush(stack, n) ==
    /\ fStack' = Append(stack, Frame(n))
    /\ fCalls' = fCalls + 1
    /\ fMaxDepth' = Max(fMaxDepth, Len(stack) + 1)

\* The top invocation returns v.
FibReturnValue(v) ==
    /\ fStack' = Deliver(fStack, v)
    /\ fReturned' = fReturned \cup {<<Top(fStack).n, v>>}
    /\ IF Len(fStack) = 1
          THEN fResult' = v /\ fOutcome' = "returned" /\ fPc' = "done"
          ELSE UNCHANGED <<fResult, fOutcome, fPc>>
    /\ UNCHANGED <<fN, fCalls, fMaxDepth>>

\* The caller's python_fibonacci(n).
FibCall ==
    /\ UNCHANGED notFib
    /\ fPc = "call"
    /\ FibPush(fStack, fN)
    /\ fPc' = "run"
    /\ UNCHANGED <<fN, fResult, fOutcome, fReturned>>

\* lines 30-31: if n <= 1: return n
FibReturnBase ==
    /\ UNCHANGED notFib
    /\ fPc = "run"
    /\ Top(fStack).stage = "enter"
    /\ FibBase(Top(fStack).n)
    /\ FibReturnValue(Top(fStack).n)

\* line 32, left operand: python_fibonacci(n - 1) is called.
FibCallLeft ==
    /\ UNCHANGED notFib
    /\ fPc = "run"
    /\ Top(fStack).stage = "enter"
    /\ ~FibBase(Top(fStack).n)
    /\ FibPush([fStack EXCEPT ![Len(fStack)].stage = "waitL"],
               FibLeftArg(Top(fStack).n))
    /\ UNCHANGED <<fPc, fN, fResult, fOutcome, fReturned>>

\* Mutant of FibCallRight: a memoized version, which takes the value of an
\* argument already computed instead of calling again.
FibCallRightMemo ==
    /\ UNCHANGED notFib
    /\ fPc = "run"
    /\ Top(fStack).stage = "gotL"
    /\ LET arg == Top(fStack).n - 2
           known == {p \in fReturned : p[1] = arg}
       IN IF known = {}
             THEN FibPush([fStack EXCEPT ![Len(fStack)].stage = "waitR"], arg)
             ELSE /\ fStack' = [fStack EXCEPT
                                   ![Len(fStack)].stage = "gotR",
                                   ![Len(fStack)].right = (CHOOSE p \in known : TRUE)[2]]
                  /\ UNCHANGED <<fCalls, fMaxDepth>>
    /\ UNCHANGED <<fPc, fN, fResult, fOutcome, fReturned>>

\* line 32, right operand: python_fibonacci(n - 2) is called.
FibCallRight ==
    /\ UNCHANGED notFib
    /\ fPc = "run"
    /\ Top(fStack).stage = "gotL"
    /\ FibPush([fStack EXCEPT ![Len(fStack)].stage = "waitR"],
               FibRightArg(Top(fStack).n))
    /\ UNCHANGED <<fPc, fN, fResult, fOutcome, fReturned>>

\* line 32: the sum of the two operands is returned.
FibReturnSum ==
    /\ UNCHANGED notFib
    /\ fPc = "run"
    /\ Top(fStack).stage = "gotR"
    /\ FibReturnValue(Top(fStack).left + Top(fStack).right)

FibStep ==
    \/ FibCall
    \/ FibReturnBase
    \/ FibCallLeft
    \/ FibCallRight
    \/ FibReturnSum

(***************************************************************************)
(* python_find_primes, statement by statement.                             *)
(***************************************************************************)
PrimesStart(active) ==
    /\ pPc = IF active THEN "check" ELSE "idle"
    /\ limit \in IF active THEN (0 - MaxNegArg)..MaxLimit ELSE {0}
    /\ sieve = <<>> /\ pI = 0 /\ pJ = 0 /\ pResult = <<>>
    /\ pOutcome = IF active THEN "running" ELSE "idle"

\* int(limit**0.5): the float square root truncated.  A limit below 2^52 is
\* exact as a float and its root rounds to no integer it does not reach, so
\* the value is the integer square root.
ISqrt(n) == CHOOSE r \in 0..n : r * r <= n /\ (r + 1) * (r + 1) > n

\* line 37: if limit < 2
TooSmall(n) == n < 2

\* Mutant of OuterLast: range(2, int(limit**0.5)), the + 1 forgotten.
OuterLastShort(n) == ISqrt(n) - 1

\* line 43: the last value of range(2, int(limit**0.5) + 1)
OuterLast(n) == ISqrt(n)

\* line 45: the first value of range(i*i, limit + 1, i)
InnerFirst(i) == i * i

\* line 48: [i for i, is_prime in enumerate(sieve) if is_prime], from index k on
RECURSIVE Marked(_, _, _)
Marked(s, k, hi) ==
    IF k > hi THEN <<>>
    ELSE (IF s[k] THEN <<k>> ELSE <<>>) \o Marked(s, k + 1, hi)

\* lines 37-38: if limit < 2: return []
PrimesCheck ==
    /\ UNCHANGED notPrimes
    /\ pPc = "check"
    /\ IF TooSmall(limit)
          THEN pResult' = <<>> /\ pOutcome' = "returned" /\ pPc' = "done"
          ELSE pPc' = "alloc" /\ UNCHANGED <<pResult, pOutcome>>
    /\ UNCHANGED <<limit, sieve, pI, pJ>>

\* lines 40-41: sieve = [True] * (limit + 1); sieve[0] = sieve[1] = False
PrimesAlloc ==
    /\ UNCHANGED notPrimes
    /\ pPc = "alloc"
    /\ sieve' = [k \in 0..limit |-> k \notin {0, 1}]
    /\ pI' = 2
    /\ pPc' = "outer"
    /\ UNCHANGED <<limit, pJ, pResult, pOutcome>>

\* lines 43-44: the outer loop takes its next i (pI), or ends; a marked i
\* starts the inner loop at i*i.
PrimesOuter ==
    /\ UNCHANGED notPrimes
    /\ pPc = "outer"
    /\ IF pI <= OuterLast(limit)
          THEN IF sieve[pI]
                  THEN pJ' = InnerFirst(pI) /\ pPc' = "inner" /\ UNCHANGED pI
                  ELSE pI' = pI + 1 /\ UNCHANGED <<pJ, pPc>>
          ELSE pPc' = "collect" /\ UNCHANGED <<pI, pJ>>
    /\ UNCHANGED <<limit, sieve, pResult, pOutcome>>

\* lines 45-46: the inner loop strikes j (pJ) and steps by i, or ends.
PrimesInner ==
    /\ UNCHANGED notPrimes
    /\ pPc = "inner"
    /\ IF pJ <= limit
          THEN /\ sieve' = [sieve EXCEPT ![pJ] = FALSE]
               /\ pJ' = pJ + pI
               /\ UNCHANGED <<pI, pPc>>
          ELSE /\ pI' = pI + 1
               /\ pPc' = "outer"
               /\ UNCHANGED <<sieve, pJ>>
    /\ UNCHANGED <<limit, pResult, pOutcome>>

\* line 48: the indices still marked, in the order enumerate yields them.
PrimesCollect ==
    /\ UNCHANGED notPrimes
    /\ pPc = "collect"
    /\ pResult' = Marked(sieve, 0, limit)
    /\ pOutcome' = "returned"
    /\ pPc' = "done"
    /\ UNCHANGED <<limit, sieve, pI, pJ>>

PrimesStep ==
    \/ PrimesCheck
    \/ PrimesAlloc
    \/ PrimesOuter
    \/ PrimesInner
    \/ PrimesCollect

(***************************************************************************)
(* python_sum_large_vector.  A Python integer is unbounded; the model      *)
(* keeps one as <<hi, lo>> with value hi * Base + lo and 0 <= lo < Base.   *)
(* The argument is a list of small integers, or list(range(n)) of main     *)
(* (line 70), which is kept as its length: its element at index k is k.    *)
(***************************************************************************)
Base == 1000 * 1000
RangeLen == 1000000

ToBig(x) == <<x \div Base, x % Base>>

\* Mutant of BigAdd: a fixed-width accumulator, the carry is lost.
BigAddWrap(acc, x) == <<acc[1], (acc[2] + x) % Base>>

\* acc + x on unbounded integers, x within one limb
BigAdd(acc, x) ==
    LET t == acc[2] + x IN <<acc[1] + (t \div Base), t % Base>>

\* sum() starts from the integer 0
SumZero == ToBig(0)

\* sum(): the accumulator after the elements from index idx (1-based) on
RECURSIVE SumFrom(_, _, _)
SumFrom(items, idx, acc) ==
    IF idx > Len(items) THEN acc
    ELSE SumFrom(items, idx + 1, BigAdd(acc, items[idx]))

\* line 25: return sum(numbers)
python_sum_large_vector(items) == SumFrom(items, 1, SumZero)

SmallInts == (0 - MaxAbsVal)..MaxAbsVal
SmallLists == UNION {[1..n -> SmallInts] : n \in 0..MaxSeqLen}

SumStart(active) ==
    /\ sPc = IF active THEN "call" ELSE "idle"
    /\ numbers \in IF active
                       THEN [kind : {"list"}, items : SmallLists, n : {0}]
                            \cup {[kind |-> "range", items |-> <<>>, n |-> RangeLen]}
                       ELSE {[kind |-> "none", items |-> <<>>, n |-> 0]}
    /\ sIdx = 0 /\ sAcc = <<0, 0>> /\ sResult = <<0, 0>>

\* python_sum_large_vector(numbers) on a small list, in one step.
SumList ==
    /\ UNCHANGED notSum
    /\ sPc = "call"
    /\ numbers.kind = "list"
    /\ sResult' = python_sum_large_vector(numbers.items)
    /\ sPc' = "done"
    /\ UNCHANGED <<numbers, sIdx, sAcc>>

\* python_sum_large_vector(list(range(n))): sum() starts ...
SumRangeStart ==
    /\ UNCHANGED notSum
    /\ sPc = "call"
    /\ numbers.kind = "range"
    /\ sAcc' = SumZero
    /\ sIdx' = 0
    /\ sPc' = "iter"
    /\ UNCHANGED <<numbers, sResult>>

\* ... adds the next element, which is its index ...
SumRangeNext ==
    /\ UNCHANGED notSum
    /\ sPc = "iter"
    /\ sIdx < numbers.n
    /\ sAcc' = BigAdd(sAcc, sIdx)
    /\ sIdx' = sIdx + 1
    /\ UNCHANGED <<sPc, numbers, sResult>>

\* ... and returns the accumulator when the list is exhausted.
SumRangeReturn ==
    /\ UNCHANGED notSum
    /\ sPc = "iter"
    /\ sIdx = numbers.n
    /\ sResult' = sAcc
    /\ sPc' = "done"
    /\ UNCHANGED <<numbers, sIdx, sAcc>>

SumStep ==
    \/ SumList
    \/ SumRangeStart
    \/ SumRangeNext
    \/ SumRangeReturn

(***************************************************************************)
(* python_analyze_text.  A string is a sequence of characters.  Of the     *)
(* characters str.splitlines() breaks at (\n \r \v \f \x1c \x1d \x1e \x85  *)
(*    ) and str.split() takes as whitespace, the model's         *)
(* alphabet holds the line feed, the carriage return and the space.        *)
(***************************************************************************)
Chars == {"a", "b", "c", " ", "\n", "\r"}
Texts == UNION {[1..n -> Chars] : n \in 0..MaxTextLen}

IsLineBreak(c) == c \in {"\n", "\r"}
IsSpace(c) == c \in {" ", "\n", "\r"}

\* The first index >= i of a line break, or Len(s) + 1.
RECURSIVE FindBreak(_, _)
FindBreak(s, i) ==
    IF i > Len(s) \/ IsLineBreak(s[i]) THEN i ELSE FindBreak(s, i + 1)

\* The index after the line break at eol: \r\n is one line break.
AfterBreak(s, eol) ==
    IF s[eol] = "\r" /\ eol + 1 <= Len(s) /\ s[eol + 1] = "\n"
       THEN eol + 2 ELSE eol + 1

\* str.splitlines(): the lines of s from index j on.  A line ends at a line
\* break or at the end of the string; nothing follows the last line break.
RECURSIVE SplitLinesFrom(_, _)
SplitLinesFrom(s, j) ==
    IF j > Len(s) THEN <<>>
    ELSE LET eol == FindBreak(s, j) IN
         <<SubSeq(s, j, eol - 1)>>
            \o (IF eol > Len(s) THEN <<>> ELSE SplitLinesFrom(s, AfterBreak(s, eol)))

\* Mutant of splitlines: text.split("\n"), one segment more than line feeds.
splitOnLineFeed(s) ==
    [k \in 1..(Cardinality({i \in 1..Len(s) : s[i] = "\n"}) + 1) |-> <<>>]

splitlines(s) == SplitLinesFrom(s, 1)

\* The first index >= i of a character that is (want = TRUE) or is not
\* whitespace, or Len(s) + 1.
RECURSIVE FindSpace(_, _, _)
FindSpace(s, i, want) ==
    IF i > Len(s) \/ IsSpace(s[i]) = want THEN i ELSE FindSpace(s, i + 1, want)

\* str.split() with no separator: skip whitespace, take the run up to the
\* next whitespace, repeat.
RECURSIVE SplitFrom(_, _)
SplitFrom(s, i) ==
    LET b == FindSpace(s, i, FALSE) IN
    IF b > Len(s) THEN <<>>
    ELSE LET e == FindSpace(s, b, TRUE) IN
         <<SubSeq(s, b, e - 1)>> \o SplitFrom(s, e)

split(s) == SplitFrom(s, 1)

\* lines 53-56
python_analyze_text(s) == <<Len(splitlines(s)), Len(split(s)), Len(s)>>

TextStart(active) ==
    /\ tPc = IF active THEN "call" ELSE "idle"
    /\ text \in IF active THEN Texts ELSE {<<>>}
    /\ tResult = <<0, 0, 0>>

AnalyzeText ==
    /\ UNCHANGED notText
    /\ tPc = "call"
    /\ tResult' = python_analyze_text(text)
    /\ tPc' = "done"
    /\ UNCHANGED text

TextStep == AnalyzeText

(***************************************************************************)
(* The specifications: one per function, the others idle.                  *)
(***************************************************************************)
Init ==
    /\ BenchStart(TRUE) /\ FibStart(FALSE) /\ PrimesStart(FALSE)
    /\ SumStart(FALSE) /\ TextStart(FALSE)

InitFib ==
    /\ BenchStart(FALSE) /\ FibStart(TRUE) /\ PrimesStart(FALSE)
    /\ SumStart(FALSE) /\ TextStart(FALSE)

InitPrimes ==
    /\ BenchStart(FALSE) /\ FibStart(FALSE) /\ PrimesStart(TRUE)
    /\ SumStart(FALSE) /\ TextStart(FALSE)

InitSum ==
    /\ BenchStart(FALSE) /\ FibStart(FALSE) /\ PrimesStart(FALSE)
    /\ SumStart(TRUE) /\ TextStart(FALSE)

InitText ==
    /\ BenchStart(FALSE) /\ FibStart(FALSE) /\ PrimesStart(FALSE)
    /\ SumStart(FALSE) /\ TextStart(TRUE)

Next == BenchStep

Spec == Init /\ [][Next]_vars

\* The interpreter keeps running the call until it returns.
SpecFib == InitFib /\ [][FibStep]_vars /\ WF_vars(FibStep)

SpecPrimes == InitPrimes /\ [][PrimesStep]_vars

SpecSum == InitSum /\ [][SumStep]_vars

SpecText == InitText /\ [][TextStep]_vars

(***************************************************************************)
(* Reference definitions the properties are stated with.                   *)
(***************************************************************************)
IsPrime(p) == p >= 2 /\ \A d \in 2..(p - 1) : p % d # 0

Reverse(s) == [k \in 1..Len(s) |-> s[Len(s) + 1 - k]]

\* The sum of the elements of s at the indices of I, in no particular order.
RECURSIVE SumOver(_, _)
SumOver(s, I) ==
    IF I = {} THEN 0
    ELSE LET i == CHOOSE i \in I : TRUE IN s[i] + SumOver(s, I \ {i})

ArithSum(s) == SumOver(s, DOMAIN s)

\* The number of invocations of the literal recursion.
RECURSIVE CallCount(_)
CallCount(n) == IF n <= 1 THEN 1 ELSE 1 + CallCount(n - 1) + CallCount(n - 2)

\* Line breaks of s, a carriage return and the line feed after it being one.
LineBreakCount(s) ==
    Cardinality({i \in 1..Len(s) :
        /\ IsLineBreak(s[i])
        /\ ~(s[i] = "\n" /\ i > 1 /\ s[i - 1] = "\r")})

\* Segments between line breaks; nothing follows a trailing line break.
LineCount(s) ==
    LineBreakCount(s) + (IF Len(s) > 0 /\ ~IsLineBreak(s[Len(s)]) THEN 1 ELSE 0)

\* Maximal runs of non-whitespace characters, counted at their first character.
WordCount(s) ==
    Cardinality({i \in 1..Len(s) :
        ~IsSpace(s[i]) /\ (i = 1 \/ IsSpace(s[i - 1]))})

\* No invocation of func raises.
NoFailure == failAt = 0 \/ failAt > iterations

\* The sign of a fraction with a non-zero denominator.
FracNonNeg(q) == (q.num >= 0 /\ q.den > 0) \/ (q.num <= 0 /\ q.den < 0)
FracNonPos(q) == (q.num <= 0 /\ q.den > 0) \/ (q.num >= 0 /\ q.den < 0)

(***************************************************************************)
(* The properties.                                                         *)
(***************************************************************************)

\* C1: for a limit L >= 0, python_find_primes(L) returns exactly the primes
\* p with 2 <= p <= L, each once, in strictly ascending order; for L < 2 the
\* empty list, and for L = 10 the list [2, 3, 5, 7].
C1_PrimesExact ==
    (pPc = "done" /\ limit >= 0) =>
        /\ pOutcome = "returned"
        /\ \A k \in 1..(Len(pResult) - 1) : pResult[k] < pResult[k + 1]
        /\ {pResult[k] : k \in 1..Len(pResult)} = {q \in 2..limit : IsPrime(q)}
        /\ (limit < 2 => pResult = <<>>)
        /\ (limit = 10 => pResult = <<2, 3, 5, 7>>)

\* A limit that is the square of a prime has been sieved.
C1_Witness == pPc = "done" /\ limit = 25 /\ Len(pResult) = 9

\* C2: every completed invocation of python_fibonacci returned 0 for 0, 1 for
\* 1 and, for n >= 2, the sum of the values returned for n - 1 and n - 2; the
\* value for 10 is 55; the outermost call returns the value of its argument.
C2_FibRecurrence ==
    /\ \A p \in fReturned :
          /\ (p[1] = 0 => p[2] = 0)
          /\ (p[1] = 1 => p[2] = 1)
          /\ (p[1] = 10 => p[2] = 55)
          /\ (p[1] >= 2 =>
                /\ \E a, b \in fReturned : a[1] = p[1] - 1 /\ b[1] = p[1] - 2
                /\ \A a, b \in fReturned :
                      (a[1] = p[1] - 1 /\ b[1] = p[1] - 2) => p[2] = a[2] + b[2])
    /\ (fPc = "done" => <<fN, fResult>> \in fReturned)

C2_Witness == fPc = "done" /\ fN = 10 /\ fResult = 55

\* C3: with iterations = k >= 1 and no failing invocation, benchmark_function
\* returns after exactly k invocations of func, and the first element of the
\* returned pair is the value the k-th invocation returned.
C3_InvokesExactlyK ==
    /\ (iterations >= 1 => calls <= iterations)
    /\ (bPc = "done" /\ iterations >= 1 /\ NoFailure) =>
          /\ bOutcome = "returned"
          /\ calls = iterations
          /\ Len(returns) = iterations
          /\ bReturn[1] = returns[iterations]

\* Three invocations, the last value differing from the first.
C3_Witness ==
    /\ bOutcome = "returned" /\ iterations = 3 /\ calls = 3
    /\ returns[1] # returns[3] /\ bReturn[1] = returns[3]

\* C4: when func raises on its j-th invocation (1 <= j <= iterations), the
\* same exception leaves benchmark_function, func is not invoked again,
\* nothing is printed and no pair is returned.
C4_FailurePropagates ==
    (failAt >= 1 /\ failAt <= iterations) =>
        /\ calls <= failAt
        /\ printed = <<>>
        /\ bReturn = <<>>
        /\ bOutcome # "returned"
        /\ (bPc = "done" =>
              bOutcome = "raised" /\ bExc = opExc /\ calls = failAt)

\* The second of three invocations raised.
C4_Witness ==
    /\ bPc = "done" /\ iterations = 3 /\ failAt = 2
    /\ bOutcome = "raised" /\ bExc = opExc /\ calls = 2

\* C5: python_sum_large_vector returns the arithmetic sum of its elements, 0
\* for the empty list, the same for a list and its reverse, and 499999500000
\* (499999 * 10^6 + 500000) for the integers 0..999999.
C5_SumIsArithmeticSum ==
    sPc = "done" =>
        /\ (numbers.kind = "list" =>
              /\ sResult = ToBig(ArithSum(numbers.items))
              /\ sResult = python_sum_large_vector(Reverse(numbers.items))
              /\ (numbers.items = <<>> => sResult = ToBig(0)))
        /\ (numbers.kind = "range" =>
              /\ numbers.n = 1000 * 1000
              /\ sResult = <<499999, 500000>>)

\* A list that differs from its reverse, with a negative sum.
C5_Witness ==
    /\ sPc = "done" /\ numbers.kind = "list" /\ Len(numbers.items) >= 3
    /\ numbers.items # Reverse(numbers.items)
    /\ sResult = ToBig(0 - 3)

\* C6: python_analyze_text returns (lines, words, characters): the segments
\* between line breaks with nothing after a trailing line break, the maximal
\* runs of non-whitespace characters, and the length; "a b\nc\n" gives
\* (2, 3, 6).
C6_TextCounts ==
    tPc = "done" =>
        /\ tResult = <<LineCount(text), WordCount(text), Len(text)>>
        /\ (text = <<>> => tResult[1] = 0)
        /\ (text = <<"a", " ", "b", "\n", "c", "\n">> => tResult = <<2, 3, 6>>)

C6_Witness ==
    /\ tPc = "done" /\ text = <<"a", " ", "b", "\n", "c", "\n">>
    /\ tResult = <<2, 3, 6>>

\* C7: python_fibonacci with a negative n, and python_find_primes with a
\* negative limit, end in an error, not in a returned value.
C7_NegativeRejected ==
    /\ (fPc = "done" /\ fN < 0 => fOutcome = "raised")
    /\ (pPc = "done" /\ limit < 0 => pOutcome = "raised")

\* C8: with iterations = k >= 1 the clock is read before the first invocation
\* and again after the last one and before the summary is printed, never a
\* third time; the returned average is (end - start) / k and is >= 0.
C8_ClockReadTwice ==
    iterations >= 1 =>
        /\ Len(reads) <= 2
        /\ (calls > 0 => Len(reads) >= 1)
        /\ (Len(reads) >= 1 => reads[1].calls = 0)
        /\ (printed # <<>> => Len(reads) = 2)
        /\ (Len(reads) = 2 => reads[2].calls = iterations /\ reads[2].printed = 0)
        /\ (bOutcome = "returned" =>
              /\ Len(reads) = 2
              /\ Len(printed) = 1
              /\ bReturn[2] = [num |-> reads[2].t - reads[1].t, den |-> iterations]
              /\ FracNonNeg(bReturn[2]))

\* Two invocations in a measured interval of positive length.
C8_Witness ==
    /\ bOutcome = "returned" /\ iterations = 2 /\ Len(reads) = 2
    /\ reads[2].t > reads[1].t /\ bReturn[2].num > 0 /\ bReturn[2].den = 2

\* C9: python_fibonacci(n), n >= 0, terminates after CallCount(n)
\* invocations (C(0) = C(1) = 1, C(n) = 1 + C(n-1) + C(n-2)), with never more
\* than max(1, n) invocations active at once.
C9_NaiveRecursion ==
    /\ [](fN >= 0 => Len(fStack) <= Max(1, fN) /\ fMaxDepth <= Max(1, fN))
    /\ [](fN >= 0 => fCalls <= CallCount(fN))
    /\ []((fPc = "done" /\ fN >= 0) => fCalls = CallCount(fN))
    /\ (fN >= 0 => <>(fPc = "done"))

C9_Witness ==
    /\ fPc = "done" /\ fN >= 5 /\ fCalls = CallCount(fN) /\ fMaxDepth = fN

\* C10: with iterations <= 0 func is never invoked and no pair is returned;
\* the call ends in ZeroDivisionError with nothing printed (iterations = 0),
\* or in UnboundLocalError after a summary with an average <= 0
\* (iterations < 0).
C10_NonPositiveIterations ==
    iterations <= 0 =>
        /\ calls = 0
        /\ bReturn = <<>>
        /\ bOutcome # "returned"
        /\ (bOutcome = "running" =>
              ENABLED (ReadStart \/ LoopExit \/ ReadEnd \/ ComputeAvg
                          \/ PrintSummary \/ ReturnPair))
        /\ (bPc = "done" =>
              /\ bOutcome = "raised"
              /\ IF iterations = 0
                    THEN bExc = "ZeroDivisionError" /\ printed = <<>>
                    ELSE /\ bExc = "UnboundLocalError"
                         /\ Len(printed) = 1
                         /\ FracNonPos(printed[1].avg))

\* A negative iteration count, time having passed between the clock reads.
C10_Witness ==
    /\ bPc = "done" /\ iterations < 0 /\ bExc = "UnboundLocalError"
    /\ Len(printed) = 1 /\ printed[1].avg.num > 0

=============================================================================
